---- MODULE Spec2Model ----
(***************************************************************************)
(* The Fsx facade of packages/core/src/fsx.js: a base implementation, an   *)
(* active implementation, a map of named call logs, and the public         *)
(* operations that log, check and dispatch to the active implementation.   *)
(*                                                                         *)
(* JavaScript values are modelled as follows.                              *)
(*   - a value a caller passes is a record [t |-> typeof, v |-> the value  *)
(*     printed]: a string, a number, undefined, or an object, whose v is   *)
(*     its identity; === is equality of these records;                     *)
(*   - what a call produces is such a record, or [t |-> "boolean", v],     *)
(*     [t |-> "array", v], [t |-> "result", ...] for what a method of an   *)
(*     implementation returned, or [t |-> "error", class, message, about]  *)
(*     for a thrown error and the value its message quotes.                *)
(* Every public method is one action; the variable last holds what the     *)
(* most recent call was, how it completed and which methods of which       *)
(* implementation it invoked.                                              *)
(***************************************************************************)
EXTENDS Naturals, Sequences, FiniteSets

VARIABLES
    baseImpl,   \* Fsx.#baseImpl
    impl,       \* Fsx.#impl
    logs,       \* Fsx.#logs: a Map in insertion order, <<[name, entries], ...>>
    last,       \* the most recent call on the facade and its outcome
    hist,       \* history: what the callers have done so far (see Observed)
    inflight    \* the calls whose promise has not settled yet, oldest first

vars == <<baseImpl, impl, logs, last, hist, inflight>>

----------------------------------------------------------------------------
(* Bounds of the model. *)

\* No log grows past MaxLog entries: a call that records is not taken when an
\* open log is full.
MaxLog == 2

\* No more than MaxInFlight calls are in flight at once: a caller that does
\* not await starts no further call when that many are unsettled.
MaxInFlight == 2

----------------------------------------------------------------------------
(* The values the callers pass. *)

Str(s) == [t |-> "string", v |-> s]

Num(s) == [t |-> "number", v |-> s]

Obj(id) == [t |-> "object", v |-> id]

Undefined == [t |-> "undefined", v |-> "undefined"]

\* The implementations: "node" has every method; "partial" has text, a json
\* that throws, an arrayBuffer member that is not a function and no write;
\* "empty" is {}; and the value undefined, which nothing keeps a caller from
\* passing.
Impls == {Obj("node"), Obj("partial"), Obj("empty"), Undefined}

Paths == {Str("f")}

\* File contents: a string, and the number 5, which is neither text nor binary
\* data.
Data == {Str("x"), Num("5")}

\* Log names: two non-empty strings, the empty string and the number 5.
Names == {Str("a"), Str("b"), Str(""), Num("5")}

\* The methods of the facade that dispatch to the implementation.
DataOps == {"text", "json", "arrayBuffer", "write"}

\* The operations of the interface of an implementation.
ImplOps ==
    {"text", "json", "arrayBuffer", "bytes", "write", "isFile", "isDirectory",
     "createDirectory", "delete", "deleteAll", "list", "size", "copy",
     "copyAll", "move"}

----------------------------------------------------------------------------
(* The implementation objects, as the facade sees them. *)

\* typeof impl[methodName], for an impl that is not undefined.
TypeOfMember(i, methodName) ==
    CASE i = Obj("node") -> "function"
      [] i = Obj("partial") /\ methodName \in {"text", "json"} -> "function"
      [] i = Obj("partial") /\ methodName = "arrayBuffer" -> "number"
      [] OTHER -> "undefined"

\* impl[methodName](...args): what the method returns, or the error it throws.
\* Calling a value that is not a function is the engine's TypeError.
Invoke(i, methodName, args) ==
    IF i = Undefined \/ TypeOfMember(i, methodName) # "function"
    THEN [t |-> "error", class |-> "TypeError",
          message |-> "% is not a function", about |-> Str(methodName)]
    ELSE IF i = Obj("partial") /\ methodName = "json"
    THEN [t |-> "error", class |-> "BackendError",
          message |-> "json of % failed", about |-> i]
    ELSE [t |-> "result", by |-> i, method |-> methodName, args |-> args]

\* A test that takes every name for truthy (the check !name left out).
FalsyNever(name) == FALSE

\* JavaScript's !value, for a log name.
Falsy(name) ==
    \/ name.t = "string" /\ name.v = ""
    \/ name.t = "number" /\ name.v = "0"
    \/ name.t = "undefined"

----------------------------------------------------------------------------
(* The errors. *)

NoSuchMethodError(methodName) ==
    [t |-> "error", class |-> "NoSuchMethodError",
     message |-> "Method % does not exist on impl.", about |-> Str(methodName)]

ImplAreadySetError ==
    [t |-> "error", class |-> "ImplAreadySetError",
     message |-> "Implementation already set.", about |-> Undefined]

LogNameTypeError ==
    [t |-> "error", class |-> "TypeError",
     message |-> "Log name must be a non-empty string.", about |-> Undefined]

LogExistsError(name) ==
    [t |-> "error", class |-> "Error",
     message |-> "Log % already exists.", about |-> name]

LogMissingError(name) ==
    [t |-> "error", class |-> "Error",
     message |-> "Log % does not exist.", about |-> name]

\* Calling a member of the facade that the class does not define.
NotAFunctionTypeError(member) ==
    [t |-> "error", class |-> "TypeError",
     message |-> "fsx.% is not a function", about |-> Str(member)]

\* Reading a property of undefined.
PropertyReadTypeError ==
    [t |-> "error", class |-> "TypeError",
     message |-> "Cannot read properties of undefined", about |-> Undefined]

----------------------------------------------------------------------------
(* The log map. *)

\* new LogEntry(methodName, args). Its timestamp, a reading of Date.now() that
\* no method of Fsx looks at, is not carried.
LogEntry(methodName, args) ==
    [methodName |-> methodName, args |-> args]

\* A lookup that sees only the oldest entry of the map.
HasFirst(m, key) == m # <<>> /\ m[1].name = key

\* Map.prototype.has / get / set (of a new key) / delete.
Has(m, key) == \E k \in DOMAIN m : m[k].name = key

Get(m, key) == m[CHOOSE k \in DOMAIN m : m[k].name = key].entries

Set(m, key, value) == Append(m, [name |-> key, entries |-> value])

NotKey(key, e) == e.name # key

\* Map.prototype.clear, for delete.
DeleteEvery(m, key) == <<>>

\* Map.prototype.delete that removes nothing.
DeleteNone(m, key) == m

Delete(m, key) == SelectSeq(m, LAMBDA e : NotKey(key, e))

Keys(m) == {m[k].name : k \in DOMAIN m}

\* #log with unshift for push.
LogUnshift(methodName, args) ==
    [k \in DOMAIN logs |->
        [logs[k] EXCEPT !.entries = <<LogEntry(methodName, args)>> \o @]]

\* #log that pushes the entry onto the log started last only.
LogNewest(methodName, args) ==
    [k \in DOMAIN logs |->
        IF k = Len(logs)
        THEN [logs[k] EXCEPT !.entries = Append(@, LogEntry(methodName, args))]
        ELSE logs[k]]

\* Fsx.#log: push one entry onto every open log.
Log(methodName, args) ==
    [k \in DOMAIN logs |->
        [logs[k] EXCEPT !.entries = Append(@, LogEntry(methodName, args))]]

\* What a call left behind for its caller.
Returned(op, args, value, calls) ==
    [op |-> op, args |-> args, outcome |-> "return", value |-> value, calls |-> calls]

Thrown(op, args, error, calls) ==
    [op |-> op, args |-> args, outcome |-> "throw", value |-> error, calls |-> calls]

\* The history the properties refer to; no operation of Fsx reads it.
\*   swaps: <<>>, or <<first, latest>>, the arguments of the first and of the
\*          latest setImpl call that returned since construction or the last
\*          resetImpl call;
\*   since: for every open log, the calls of setImpl, resetImpl and the
\*          dispatching methods made since the logStart that opened it.
NoHistory == [swaps |-> <<>>, since |-> <<>>]

Observed(h, op, args) ==
    [h EXCEPT !.since = [k \in DOMAIN @ |->
        [@[k] EXCEPT !.entries = Append(@, [op |-> op, args |-> args])]]]

Swapped(h, i) ==
    [h EXCEPT !.swaps = IF @ = <<>> THEN <<i, i>> ELSE <<@[1], i>>]

Opened(h, name) ==
    [h EXCEPT !.since = Append(@, [name |-> name, entries |-> <<>>])]

Closed(h, name) ==
    [h EXCEPT !.since = SelectSeq(@, LAMBDA e : NotKey(name, e))]

\* The model's bound on the logs: a call that records fits.
Room == \A k \in DOMAIN logs : Len(logs[k].entries) < MaxLog

----------------------------------------------------------------------------
(* Construction. *)

\* new Fsx({ impl }): both references are the constructor's argument and the
\* map of logs is empty.
Init ==
    /\ baseImpl \in Impls
    /\ impl = baseImpl
    /\ logs = <<>>
    /\ last = Returned("constructor", <<baseImpl>>, Undefined, <<>>)
    /\ hist = NoHistory
    /\ inflight = <<>>

----------------------------------------------------------------------------
(* The log operations. *)

\* Fsx.logStart(name)
LogStart(name) ==
    /\ IF Falsy(name) \/ name.t # "string"
       THEN /\ last' = Thrown("logStart", <<name>>, LogNameTypeError, <<>>)
            /\ logs' = logs
       ELSE IF Has(logs, name)
       THEN /\ last' = Thrown("logStart", <<name>>, LogExistsError(name), <<>>)
            /\ logs' = logs
       ELSE /\ last' = Returned("logStart", <<name>>, Undefined, <<>>)
            /\ logs' = Set(logs, name, <<>>)
    /\ hist' = IF last'.outcome = "return" THEN Opened(hist, name) ELSE hist
    /\ UNCHANGED <<baseImpl, impl, inflight>>

\* logEnd that also puts the base implementation back.
LogEndResets(name) ==
    /\ IF Has(logs, name)
       THEN /\ last' = Returned("logEnd", <<name>>,
                                [t |-> "array", v |-> Get(logs, name)], <<>>)
            /\ logs' = Delete(logs, name)
       ELSE /\ last' = Thrown("logEnd", <<name>>, LogMissingError(name), <<>>)
            /\ logs' = logs
    /\ hist' = IF last'.outcome = "return" THEN Closed(hist, name) ELSE hist
    /\ impl' = baseImpl
    /\ UNCHANGED <<baseImpl, inflight>>

\* Fsx.logEnd(name)
LogEnd(name) ==
    /\ IF Has(logs, name)
       THEN /\ last' = Returned("logEnd", <<name>>,
                                [t |-> "array", v |-> Get(logs, name)], <<>>)
            /\ logs' = Delete(logs, name)
       ELSE /\ last' = Thrown("logEnd", <<name>>, LogMissingError(name), <<>>)
            /\ logs' = logs
    /\ hist' = IF last'.outcome = "return" THEN Closed(hist, name) ELSE hist
    /\ UNCHANGED <<baseImpl, impl, inflight>>

----------------------------------------------------------------------------
(* Swapping the implementation. *)

\* isBaseImpl with the comparison inverted (!== for ===).
IsBaseImplInverted ==
    /\ last' = Returned("isBaseImpl", <<>>,
                        [t |-> "boolean", v |-> (impl # baseImpl)], <<>>)
    /\ UNCHANGED <<baseImpl, impl, logs, hist, inflight>>

\* isBaseImpl that records its call like setImpl and resetImpl do.
IsBaseImplLogged ==
    /\ Room
    /\ logs' = Log("isBaseImpl", <<>>)
    /\ last' = Returned("isBaseImpl", <<>>,
                        [t |-> "boolean", v |-> (impl = baseImpl)], <<>>)
    /\ UNCHANGED <<baseImpl, impl, hist, inflight>>

\* Fsx.isBaseImpl()
IsBaseImpl ==
    /\ last' = Returned("isBaseImpl", <<>>,
                        [t |-> "boolean", v |-> (impl = baseImpl)], <<>>)
    /\ UNCHANGED <<baseImpl, impl, logs, hist, inflight>>

\* setImpl assigning #impl before it checks that no swap is in effect.
SetImplAssignFirst(i) ==
    /\ Room
    /\ logs' = Log("implSet", <<i>>)
    /\ impl' = i
    /\ IF i # baseImpl
       THEN last' = Thrown("setImpl", <<i>>, ImplAreadySetError, <<>>)
       ELSE last' = Returned("setImpl", <<i>>, Undefined, <<>>)
    /\ hist' = IF last'.outcome = "return"
               THEN Swapped(Observed(hist, "setImpl", <<i>>), i)
               ELSE Observed(hist, "setImpl", <<i>>)
    /\ UNCHANGED <<baseImpl, inflight>>

\* setImpl that records the call after the check, so only when it succeeds.
SetImplLogAfterCheck(i) ==
    /\ Room
    /\ IF impl # baseImpl
       THEN /\ last' = Thrown("setImpl", <<i>>, ImplAreadySetError, <<>>)
            /\ impl' = impl
            /\ logs' = logs
       ELSE /\ last' = Returned("setImpl", <<i>>, Undefined, <<>>)
            /\ impl' = i
            /\ logs' = Log("implSet", <<i>>)
    /\ hist' = IF last'.outcome = "return"
               THEN Swapped(Observed(hist, "setImpl", <<i>>), i)
               ELSE Observed(hist, "setImpl", <<i>>)
    /\ UNCHANGED <<baseImpl, inflight>>

\* setImpl that accepts only an implementation that has every data method.
SetImplValidates(i) ==
    /\ Room
    /\ logs' = Log("implSet", <<i>>)
    /\ IF impl # baseImpl
       THEN /\ last' = Thrown("setImpl", <<i>>, ImplAreadySetError, <<>>)
            /\ impl' = impl
       ELSE IF \E methodName \in DataOps : TypeOfMember(i, methodName) # "function"
       THEN /\ last' = Thrown("setImpl", <<i>>, NoSuchMethodError("text"), <<>>)
            /\ impl' = impl
       ELSE /\ last' = Returned("setImpl", <<i>>, Undefined, <<>>)
            /\ impl' = i
    /\ hist' = IF last'.outcome = "return"
               THEN Swapped(Observed(hist, "setImpl", <<i>>), i)
               ELSE Observed(hist, "setImpl", <<i>>)
    /\ UNCHANGED <<baseImpl, inflight>>

\* setImpl that returns without having assigned the implementation.
SetImplForgets(i) ==
    /\ Room
    /\ logs' = Log("implSet", <<i>>)
    /\ impl' = impl
    /\ IF impl # baseImpl
       THEN last' = Thrown("setImpl", <<i>>, ImplAreadySetError, <<>>)
       ELSE last' = Returned("setImpl", <<i>>, Undefined, <<>>)
    /\ hist' = IF last'.outcome = "return"
               THEN Swapped(Observed(hist, "setImpl", <<i>>), i)
               ELSE Observed(hist, "setImpl", <<i>>)
    /\ UNCHANGED <<baseImpl, inflight>>

\* setImpl that moves the calls in flight over to the new implementation.
SetImplRedirects(i) ==
    /\ Room
    /\ logs' = Log("implSet", <<i>>)
    /\ IF impl # baseImpl
       THEN /\ last' = Thrown("setImpl", <<i>>, ImplAreadySetError, <<>>)
            /\ impl' = impl
            /\ inflight' = inflight
       ELSE /\ last' = Returned("setImpl", <<i>>, Undefined, <<>>)
            /\ impl' = i
            /\ inflight' = [k \in DOMAIN inflight |->
                               [inflight[k] EXCEPT !.target = i]]
    /\ hist' = IF last'.outcome = "return"
               THEN Swapped(Observed(hist, "setImpl", <<i>>), i)
               ELSE Observed(hist, "setImpl", <<i>>)
    /\ UNCHANGED baseImpl

\* Fsx.setImpl(impl)
SetImpl(i) ==
    /\ Room
    /\ logs' = Log("implSet", <<i>>)
    /\ IF impl # baseImpl
       THEN /\ last' = Thrown("setImpl", <<i>>, ImplAreadySetError, <<>>)
            /\ impl' = impl
       ELSE /\ last' = Returned("setImpl", <<i>>, Undefined, <<>>)
            /\ impl' = i
    /\ hist' = IF last'.outcome = "return"
               THEN Swapped(Observed(hist, "setImpl", <<i>>), i)
               ELSE Observed(hist, "setImpl", <<i>>)
    /\ UNCHANGED <<baseImpl, inflight>>

\* resetImpl that throws when no swap is in effect.
ResetImplStrict ==
    /\ Room
    /\ logs' = Log("implReset", <<>>)
    /\ impl' = baseImpl
    /\ IF impl = baseImpl
       THEN last' = Thrown("resetImpl", <<>>, ImplAreadySetError, <<>>)
       ELSE last' = Returned("resetImpl", <<>>, Undefined, <<>>)
    /\ hist' = [Observed(hist, "resetImpl", <<>>) EXCEPT !.swaps = <<>>]
    /\ UNCHANGED <<baseImpl, inflight>>

\* resetImpl that leaves the active implementation as it is.
ResetImplKeeps ==
    /\ Room
    /\ logs' = Log("implReset", <<>>)
    /\ impl' = impl
    /\ last' = Returned("resetImpl", <<>>, Undefined, <<>>)
    /\ hist' = [Observed(hist, "resetImpl", <<>>) EXCEPT !.swaps = <<>>]
    /\ UNCHANGED <<baseImpl, inflight>>

\* resetImpl with its assignment the wrong way round: #baseImpl = #impl.
ResetImplBackwards ==
    /\ Room
    /\ logs' = Log("implReset", <<>>)
    /\ baseImpl' = impl
    /\ last' = Returned("resetImpl", <<>>, Undefined, <<>>)
    /\ hist' = [Observed(hist, "resetImpl", <<>>) EXCEPT !.swaps = <<>>]
    /\ UNCHANGED <<impl, inflight>>

\* Fsx.resetImpl()
ResetImpl ==
    /\ Room
    /\ logs' = Log("implReset", <<>>)
    /\ impl' = baseImpl
    /\ last' = Returned("resetImpl", <<>>, Undefined, <<>>)
    /\ hist' = [Observed(hist, "resetImpl", <<>>) EXCEPT !.swaps = <<>>]
    /\ UNCHANGED <<baseImpl, inflight>>

----------------------------------------------------------------------------
(* Dispatch. *)

\* #assertImplMethod testing the member against undefined instead of testing
\* that it is a function.
AssertImplMethodLoose(methodName) ==
    IF impl = Undefined
    THEN PropertyReadTypeError
    ELSE IF TypeOfMember(impl, methodName) = "undefined"
    THEN NoSuchMethodError(methodName)
    ELSE Undefined

\* Fsx.#assertImplMethod: the error it throws, or undefined when it returns.
AssertImplMethod(methodName) ==
    IF impl = Undefined
    THEN PropertyReadTypeError
    ELSE IF TypeOfMember(impl, methodName) # "function"
    THEN NoSuchMethodError(methodName)
    ELSE Undefined

\* #callImplMethod logging only once the member has been checked.
CallImplMethodLogAfterCheck(methodName, args) ==
    /\ LET check == AssertImplMethod(methodName)
           call == [target |-> impl, method |-> methodName, args |-> args]
           got == Invoke(impl, methodName, args)
       IN  IF check.t = "error"
           THEN /\ last' = Thrown(methodName, args, check, <<>>)
                /\ logs' = logs
           ELSE /\ logs' = Log(methodName, args)
                /\ IF got.t = "error"
                   THEN last' = Thrown(methodName, args, got, <<call>>)
                   ELSE last' = Returned(methodName, args, got, <<call>>)
    /\ hist' = Observed(hist, methodName, args)
    /\ UNCHANGED <<baseImpl, impl>>

\* #callImplMethod dispatching to #baseImpl instead of #impl.
CallImplMethodOnBase(methodName, args) ==
    /\ logs' = Log(methodName, args)
    /\ LET check == AssertImplMethod(methodName)
           call == [target |-> baseImpl, method |-> methodName, args |-> args]
           got == Invoke(baseImpl, methodName, args)
       IN  IF check.t = "error"
           THEN last' = Thrown(methodName, args, check, <<>>)
           ELSE IF got.t = "error"
           THEN last' = Thrown(methodName, args, got, <<call>>)
           ELSE last' = Returned(methodName, args, got, <<call>>)
    /\ hist' = Observed(hist, methodName, args)
    /\ UNCHANGED <<baseImpl, impl>>

\* #callImplMethod that catches what the implementation throws and throws an
\* error of its own instead.
CallImplMethodWrapsError(methodName, args) ==
    /\ logs' = Log(methodName, args)
    /\ LET check == AssertImplMethod(methodName)
           call == [target |-> impl, method |-> methodName, args |-> args]
           got == Invoke(impl, methodName, args)
       IN  IF check.t = "error"
           THEN last' = Thrown(methodName, args, check, <<>>)
           ELSE IF got.t = "error"
           THEN last' = Thrown(methodName, args,
                               [t |-> "error", class |-> "Error",
                                message |-> "% failed", about |-> Str(methodName)],
                               <<call>>)
           ELSE last' = Returned(methodName, args, got, <<call>>)
    /\ hist' = Observed(hist, methodName, args)
    /\ UNCHANGED <<baseImpl, impl>>

\* Fsx.#callImplMethod, called by the public method op.
CallImplMethod(methodName, args) ==
    /\ logs' = Log(methodName, args)
    /\ LET check == AssertImplMethod(methodName)
           call == [target |-> impl, method |-> methodName, args |-> args]
           got == Invoke(impl, methodName, args)
       IN  IF check.t = "error"
           THEN last' = Thrown(methodName, args, check, <<>>)
           ELSE IF got.t = "error"
           THEN last' = Thrown(methodName, args, got, <<call>>)
           ELSE last' = Returned(methodName, args, got, <<call>>)
    /\ hist' = Observed(hist, methodName, args)
    /\ UNCHANGED <<baseImpl, impl>>

\* Fsx.text(filePath)
Text(filePath) ==
    /\ Room
    /\ CallImplMethod("text", <<filePath>>)

\* Fsx.json(filePath)
Json(filePath) ==
    /\ Room
    /\ CallImplMethod("json", <<filePath>>)

\* Fsx.arrayBuffer(filePath)
ArrayBuffer(filePath) ==
    /\ Room
    /\ CallImplMethod("arrayBuffer", <<filePath>>)

\* Fsx.write(filePath, data)
Write(filePath, data) ==
    /\ Room
    /\ CallImplMethod("write", <<filePath, data>>)

----------------------------------------------------------------------------
(* The callers. *)

\* fsx[member](filePath) for an operation of the interface that class Fsx has
\* no method of that name for: the member is undefined, and the call
\* expression throws the engine's TypeError before anything of the facade runs.
CallUndefined(member, filePath) ==
    /\ member \in ImplOps \ DataOps
    /\ last' = Thrown(member, <<filePath>>, NotAFunctionTypeError(member), <<>>)
    /\ UNCHANGED <<baseImpl, impl, logs, hist, inflight>>

\* await fsx.text(...): the caller makes its next call after this one has
\* settled, so the call is never seen in flight.
Awaited == inflight' = inflight

\* Callers that await every call.
Next ==
    \/ \E name \in Names : LogStart(name)
    \/ \E name \in Names : LogEnd(name)
    \/ IsBaseImpl
    \/ \E i \in Impls : SetImpl(i)
    \/ ResetImpl
    \/ \E filePath \in Paths : Text(filePath) /\ Awaited
    \/ \E filePath \in Paths : Json(filePath) /\ Awaited
    \/ \E filePath \in Paths : ArrayBuffer(filePath) /\ Awaited
    \/ \E filePath \in Paths, data \in Data : Write(filePath, data) /\ Awaited

Spec == Init /\ [][Next]_vars

----------------------------------------------------------------------------
(* Vocabulary of the properties. *)

\* The implementation value i has a callable member named methodName.
Exposes(i, methodName) ==
    /\ i # Undefined
    /\ TypeOfMember(i, methodName) = "function"

\* The one invocation a dispatching call is expected to make.
Invocation(i, call) ==
    [target |-> i, method |-> call.op, args |-> call.args]

\* A non-empty string.
ValidName(name) == name.t = "string" /\ name.v # ""

\* The calls that are recorded in the open logs.
RecordedOps == DataOps \cup {"setImpl", "resetImpl"}

----------------------------------------------------------------------------
(* Callers that do not await, and callers of the whole interface. *)

\* fsx.text(...) without await: the caller goes on while the promise that the
\* implementation returned is unsettled. A call that threw before it invoked
\* the implementation has nothing in flight. In a behaviour of such callers,
\* last is what the call settles with.
Started ==
    /\ Len(inflight) < MaxInFlight
    /\ inflight' = IF last'.calls = <<>>
                   THEN inflight
                   ELSE Append(inflight, [op |-> last'.op,
                                          target |-> last'.calls[1].target])

\* Settling that records the call, as if the log were written on completion.
SettleAndLog(k) ==
    /\ k \in DOMAIN inflight
    /\ Room
    /\ inflight' = [j \in 1..(Len(inflight) - 1) |->
                       IF j < k THEN inflight[j] ELSE inflight[j + 1]]
    /\ logs' = Log(inflight[k].op, <<>>)
    /\ last' = Returned("settled", <<Str(inflight[k].op), inflight[k].target>>,
                        Undefined, <<>>)
    /\ UNCHANGED <<baseImpl, impl, hist>>

\* The promise of the k-th call in flight settles, in whatever order the
\* implementations complete their work: the awaiting code of the caller runs,
\* no code of the facade does.
Settle(k) ==
    /\ k \in DOMAIN inflight
    /\ inflight' = [j \in 1..(Len(inflight) - 1) |->
                       IF j < k THEN inflight[j] ELSE inflight[j + 1]]
    /\ last' = Returned("settled", <<Str(inflight[k].op), inflight[k].target>>,
                        Undefined, <<>>)
    /\ UNCHANGED <<baseImpl, impl, logs, hist>>

\* The log names of the callers that do not await: valid names only.
OpenableNames == {name \in Names : ValidName(name)}

\* Callers that start calls without awaiting them.
NextAsync ==
    \/ \E name \in OpenableNames : LogStart(name)
    \/ \E name \in OpenableNames : LogEnd(name)
    \/ \E i \in Impls : SetImpl(i)
    \/ ResetImpl
    \/ \E filePath \in Paths : Text(filePath) /\ Started
    \/ \E filePath \in Paths : Json(filePath) /\ Started
    \/ \E filePath \in Paths : ArrayBuffer(filePath) /\ Started
    \/ \E filePath \in Paths, data \in Data : Write(filePath, data) /\ Started
    \/ \E k \in 1..MaxInFlight : Settle(k)

\* new Fsx({ impl }) with an implementation that has every operation.
InitAsync == Init /\ baseImpl = Obj("node")

SpecAsync == InitAsync /\ [][NextAsync]_vars

\* Callers that use every operation of the interface of an implementation
\* as a method of the facade, as docs/file-operations.md does.
NextInterface ==
    \/ Next
    \/ \E member \in ImplOps, filePath \in Paths : CallUndefined(member, filePath)

SpecInterface == Init /\ [][NextInterface]_vars

----------------------------------------------------------------------------
(* C1 *)

\* C1: a call of a dispatching method op, made while the active
\* implementation has a callable member op, invokes that member of the active
\* implementation exactly once, with the arguments of the call, and completes
\* with what the invocation produced: its return value, unchanged.
C1_DispatchToImpl ==
    (last.op \in DataOps /\ Exposes(impl, last.op)) =>
        /\ last.calls = <<Invocation(impl, last)>>
        /\ LET got == Invoke(impl, last.op, last.args)
           IN  got.t = "result" =>
                   /\ last.outcome = "return"
                   /\ last.value = got

\* write("f", "x") has returned what the swapped-in "node" returned for it.
C1_Witness ==
    /\ last.op = "write"
    /\ last.args = <<Str("f"), Str("x")>>
    /\ impl = Obj("node")
    /\ baseImpl = Obj("empty")
    /\ last.outcome = "return"
    /\ last.value = [t |-> "result", by |-> Obj("node"), method |-> "write",
                     args |-> <<Str("f"), Str("x")>>]

----------------------------------------------------------------------------
(* C2 *)

\* C2 as stated: whenever the active implementation, whatever value it is,
\* has no callable member op, a call of op throws NoSuchMethodError(op) and
\* invokes nothing.
C2_AsStated ==
    (last.op \in DataOps /\ ~Exposes(impl, last.op)) =>
        /\ last.outcome = "throw"
        /\ last.value = NoSuchMethodError(last.op)
        /\ last.calls = <<>>

\* C2, amended: when the active implementation is a value other than
\* undefined and has no callable member op (no member, or a member that is
\* not a function), a call of op throws NoSuchMethodError(op) and invokes
\* nothing; when the active implementation is undefined the call throws the
\* TypeError of the property read, and invokes nothing either.
C2_NoSuchMethod ==
    (last.op \in DataOps /\ ~Exposes(impl, last.op)) =>
        /\ last.outcome = "throw"
        /\ last.calls = <<>>
        /\ last.value = IF impl = Undefined
                        THEN PropertyReadTypeError
                        ELSE NoSuchMethodError(last.op)

\* arrayBuffer("f") has thrown NoSuchMethodError on an implementation whose
\* arrayBuffer member is not a function.
C2_Witness ==
    /\ last.op = "arrayBuffer"
    /\ impl = Obj("partial")
    /\ last.outcome = "throw"
    /\ last.value = NoSuchMethodError("arrayBuffer")

----------------------------------------------------------------------------
(* C3 *)

\* C3 as stated: isBaseImpl() called right after construction or right after
\* resetImpl() returns true, and called right after a setImpl(i) that
\* returned it returns false, whatever i is.
C3_AsStated ==
    [][last'.op = "isBaseImpl" =>
        /\ last.op \in {"constructor", "resetImpl"} => last'.value.v = TRUE
        /\ (last.op = "setImpl" /\ last.outcome = "return") =>
               last'.value.v = FALSE]_vars

\* C3, amended: isBaseImpl() called right after construction or right after
\* resetImpl() returns true; called right after a setImpl(i) that returned,
\* it returns false when i is not the base implementation itself, and true
\* when i is the base implementation.
C3_IsBaseImpl ==
    [][last'.op = "isBaseImpl" =>
        /\ last.op \in {"constructor", "resetImpl"} => last'.value.v = TRUE
        /\ (last.op = "setImpl" /\ last.outcome = "return") =>
               last'.value.v = (last.args[1] = baseImpl)]_vars

\* isBaseImpl() has returned false while a swap is in effect.
C3_Witness ==
    /\ last.op = "isBaseImpl"
    /\ last.value.v = FALSE
    /\ hist.swaps # <<>>
    /\ hist.swaps[2] # baseImpl

----------------------------------------------------------------------------
(* C4 *)

\* C4: a setImpl call made after a setImpl call that returned, with no
\* resetImpl call in between, throws ImplAreadySetError and leaves active the
\* implementation that was set first.
C4_SecondSetImplFails ==
    [][(last'.op = "setImpl" /\ hist.swaps # <<>>) =>
        /\ last'.outcome = "throw"
        /\ last'.value = ImplAreadySetError
        /\ impl' = hist.swaps[1]]_vars

----------------------------------------------------------------------------
(* C5 *)

\* C5 as stated: a setImpl call or a logStart call that throws leaves the
\* active implementation and the logs, names and contents, as they were.
C5_AsStated ==
    [][(last'.op \in {"setImpl", "logStart"} /\ last'.outcome = "throw") =>
        /\ impl' = impl
        /\ logs' = logs]_vars

\* C5, amended: a logStart call that throws (TypeError for the name, or the
\* error for a log that exists) leaves the active implementation and the
\* logs, names and contents, as they were; a setImpl call that throws
\* (ImplAreadySetError) leaves the active implementation and the set of open
\* logs as they were, and every open log has gained exactly one entry, the
\* record of that call, at its end.
C5_FailedCallState ==
    [][(last'.op \in {"setImpl", "logStart"} /\ last'.outcome = "throw") =>
        /\ impl' = impl
        /\ baseImpl' = baseImpl
        /\ last'.op = "logStart" =>
               /\ logs' = logs
               /\ last'.value \in {LogNameTypeError, LogExistsError(last'.args[1])}
        /\ last'.op = "setImpl" =>
               /\ last'.value = ImplAreadySetError
               /\ DOMAIN logs' = DOMAIN logs
               /\ \A k \in DOMAIN logs :
                      /\ logs'[k].name = logs[k].name
                      /\ logs'[k].entries =
                             Append(logs[k].entries,
                                    [methodName |-> "implSet", args |-> last'.args])]_vars

\* setImpl has thrown ImplAreadySetError while a log is open.
C5_Witness ==
    /\ last.op = "setImpl"
    /\ last.outcome = "throw"
    /\ last.value = ImplAreadySetError
    /\ logs # <<>>
    /\ impl # last.args[1]

----------------------------------------------------------------------------
(* C6 *)

\* The records of a sequence of calls, each under the name given by naming.
RecordsOf(calls, naming) ==
    [k \in DOMAIN calls |->
        [methodName |-> naming[calls[k].op], args |-> calls[k].args]]

\* The name of the method that was called.
OwnName == [op \in RecordedOps |-> op]

\* The name a call is recorded under.
RecordedName ==
    [op \in RecordedOps |->
        CASE op = "setImpl" -> "implSet"
          [] op = "resetImpl" -> "implReset"
          [] OTHER -> op]

----------------------------------------------------------------------------
(* C7 *)

\* C7: every call of a dispatching method, whether it returns, throws
\* NoSuchMethodError, throws the TypeError of the property read or throws
\* the error of the implementation's method, leaves every open log with
\* exactly one more entry, the record of that call, at its end; the entry is
\* pushed before the member is checked and before it is invoked, so no
\* outcome of either takes it back.
C7_RecordedWhateverOutcome ==
    [][last'.op \in DataOps =>
        /\ DOMAIN logs' = DOMAIN logs
        /\ \A k \in DOMAIN logs :
               /\ logs'[k].name = logs[k].name
               /\ logs'[k].entries =
                      Append(logs[k].entries,
                             [methodName |-> last'.op, args |-> last'.args])]_vars

\* write has thrown NoSuchMethodError with two logs open, and its record is
\* the last entry of both.
C7_Witness ==
    /\ last.op = "write"
    /\ last.outcome = "throw"
    /\ last.value = NoSuchMethodError("write")
    /\ last.calls = <<>>
    /\ Len(logs) = 2
    /\ \A k \in DOMAIN logs :
           /\ logs[k].entries # <<>>
           /\ logs[k].entries[Len(logs[k].entries)] =
                  [methodName |-> "write", args |-> last.args]

----------------------------------------------------------------------------
(* C8 *)

\* C8: every recorded call is appended to each of the logs open when it is
\* made; a logEnd(n) that returns takes the log n, and only it, out of the
\* logs, so that n receives no later record, and leaves every other open
\* log open, in place, with the entries it had.
C8_IndependentLogs ==
    [][/\ last'.op \in RecordedOps =>
              /\ DOMAIN logs' = DOMAIN logs
              /\ \A k \in DOMAIN logs :
                     logs'[k] =
                         [logs[k] EXCEPT !.entries =
                             Append(@, [methodName |-> RecordedName[last'.op],
                                        args |-> last'.args])]
       /\ (last'.op = "logEnd" /\ last'.outcome = "return") =>
              LET n == last'.args[1]
                  kept == {k \in DOMAIN logs : logs[k].name # n}
              IN  /\ Len(logs') = Cardinality(kept)
                  /\ \A k \in DOMAIN logs' : logs'[k].name # n
                  /\ \A k \in kept :
                         logs'[Cardinality({j \in kept : j <= k})] = logs[k]]_vars

\* Of two logs, the one opened later has been ended after a call that both
\* received: it returned its one entry, and the other is still open with its
\* two.
C8_Witness ==
    /\ last.op = "logEnd"
    /\ last.outcome = "return"
    /\ Len(last.value.v) = 1
    /\ Len(logs) = 1
    /\ Len(logs[1].entries) = 2
    /\ logs[1].entries[2] = last.value.v[1]

----------------------------------------------------------------------------
(* C9 *)

\* C9: logStart(n) with a non-empty string n throws the "already exists"
\* error exactly when a log named n is open, and throws nothing else;
\* logEnd(n) throws the "does not exist" error exactly when no log named n
\* is open, and throws nothing else.
C9_DuplicateAndUnknown ==
    [][/\ (last'.op = "logStart" /\ ValidName(last'.args[1])) =>
              /\ last'.outcome = "throw" <=> last'.args[1] \in Keys(logs)
              /\ last'.outcome = "throw" =>
                     last'.value = LogExistsError(last'.args[1])
       /\ last'.op = "logEnd" =>
              /\ last'.outcome = "throw" <=> last'.args[1] \notin Keys(logs)
              /\ last'.outcome = "throw" =>
                     last'.value = LogMissingError(last'.args[1])]_vars

\* logStart("b") has thrown the "already exists" error with "a" and "b" open.
C9_Witness ==
    /\ last.op = "logStart"
    /\ last.outcome = "throw"
    /\ last.value = LogExistsError(Str("b"))
    /\ Len(logs) = 2
    /\ logs[2].name = Str("b")

----------------------------------------------------------------------------
(* C10 *)

\* C10: logStart(name) throws the TypeError for the name, and changes no
\* log, whenever name is not a non-empty string, whatever logs are open (so
\* never the "already exists" error for such a name); for a non-empty string
\* that names no open log it returns, having added one log of that name,
\* empty, after the open logs, which are as they were.
C10_LogStart ==
    [][last'.op = "logStart" =>
        LET name == last'.args[1]
        IN  /\ ~ValidName(name) =>
                   /\ last'.outcome = "throw"
                   /\ last'.value = LogNameTypeError
                   /\ logs' = logs
            /\ (ValidName(name) /\ name \notin Keys(logs)) =>
                   /\ last'.outcome = "return"
                   /\ logs' = Append(logs, [name |-> name, entries |-> <<>>])]_vars

\* logStart has opened a second, empty log beside one that has entries.
C10_Witness ==
    /\ last.op = "logStart"
    /\ last.outcome = "return"
    /\ Len(logs) = 2
    /\ logs[1].entries # <<>>
    /\ logs[2] = [name |-> last.args[1], entries |-> <<>>]

----------------------------------------------------------------------------
(* C11 *)

\* C11: when logEnd(name) returns, no log of that name is open any more;
\* and from any state where no log named name is open, which the state after
\* a logEnd(name) that returned is, logEnd(name) throws the "does not exist"
\* error and changes no log, while logStart(name), for a valid name, returns
\* and opens a log of that name with no entries.
C11_LogEndRemoves ==
    [][/\ (last'.op = "logEnd" /\ last'.outcome = "return") =>
              last'.args[1] \notin Keys(logs')
       /\ (last.op = "logEnd" /\ last.outcome = "return") =>
              last.args[1] \notin Keys(logs)
       /\ (last'.op = "logEnd" /\ last'.args[1] \notin Keys(logs)) =>
              /\ last'.outcome = "throw"
              /\ last'.value = LogMissingError(last'.args[1])
              /\ logs' = logs
       /\ (/\ last'.op = "logStart"
           /\ last'.args[1] \notin Keys(logs)
           /\ ValidName(last'.args[1])) =>
              /\ last'.outcome = "return"
              /\ Has(logs', last'.args[1])
              /\ Get(logs', last'.args[1]) = <<>>]_vars

\* logEnd has returned the two entries of a log, and the name is that of no
\* open log, though another log is still open.
C11_Witness ==
    /\ last.op = "logEnd"
    /\ last.outcome = "return"
    /\ Len(last.value.v) = 2
    /\ last.args[1] \notin Keys(logs)
    /\ logs # <<>>

----------------------------------------------------------------------------
(* C12 *)

\* C12: for every operation of the interface of an implementation, a call of
\* the facade's method of that name, made while the active implementation is
\* an object, is recorded as the last entry of every open log, and then
\* either invokes that member of the active implementation once, with the
\* arguments of the call, or, when the active implementation has no such
\* callable member, throws NoSuchMethodError for it.
C12_AsStated ==
    (last.op \in ImplOps /\ impl.t = "object") =>
        /\ \A k \in DOMAIN logs :
               /\ logs[k].entries # <<>>
               /\ logs[k].entries[Len(logs[k].entries)] =
                      LogEntry(last.op, last.args)
        /\ IF Exposes(impl, last.op)
           THEN last.calls = <<Invocation(impl, last)>>
           ELSE /\ last.outcome = "throw"
                /\ last.value = NoSuchMethodError(last.op)

----------------------------------------------------------------------------
(* C13 *)

\* C13: resetImpl() can be called in every state (that has room in the logs
\* for its record), swapped or not; it returns, it never throws, and it
\* leaves the active implementation identical to the base implementation;
\* called right after a resetImpl(), it leaves the active implementation as
\* that first call left it.
C13_ResetImpl ==
    [][/\ Room => ENABLED ResetImpl
       /\ last'.op = "resetImpl" =>
              /\ last'.outcome = "return"
              /\ impl' = baseImpl
              /\ last.op = "resetImpl" => impl' = impl]_vars

\* resetImpl() has returned after a swap: the log shows the setImpl of another
\* implementation, then the reset, and the base implementation is active.
C13_Witness ==
    /\ last.op = "resetImpl"
    /\ last.outcome = "return"
    /\ Len(logs) = 1
    /\ Len(logs[1].entries) = 2
    /\ logs[1].entries[1].methodName = "implSet"
    /\ logs[1].entries[1].args # <<baseImpl>>
    /\ logs[1].entries[2].methodName = "implReset"
    /\ impl = baseImpl

----------------------------------------------------------------------------
(* C14 *)

\* C14: every call of setImpl(impl), whether it returns or throws, leaves the
\* same logs open, each with exactly one more entry than before, at its end,
\* whose arguments are <<impl>>; every call of resetImpl() leaves the same
\* logs open, each with exactly one more entry, at its end, whose arguments
\* are empty.
C14_SwapsRecorded ==
    [][last'.op \in {"setImpl", "resetImpl"} =>
        /\ Len(logs') = Len(logs)
        /\ \A k \in DOMAIN logs :
               /\ logs'[k].name = logs[k].name
               /\ Len(logs'[k].entries) = Len(logs[k].entries) + 1
               /\ SubSeq(logs'[k].entries, 1, Len(logs[k].entries)) =
                      logs[k].entries
               /\ logs'[k].entries[Len(logs'[k].entries)].args =
                      IF last'.op = "setImpl" THEN last'.args ELSE <<>>]_vars

\* A setImpl call has failed with two logs open, and its record, with the
\* rejected implementation as its argument, ends both of them.
C14_Witness ==
    /\ last.op = "setImpl"
    /\ last.outcome = "throw"
    /\ Len(last.args) = 1
    /\ Len(logs) = 2
    /\ \A k \in DOMAIN logs :
           /\ logs[k].entries # <<>>
           /\ logs[k].entries[Len(logs[k].entries)].args = last.args
           /\ last.args[1] # impl

----------------------------------------------------------------------------
(* C15 *)

\* C15: when the member of the active implementation that a data method
\* invokes throws, the call of the data method throws that very error value,
\* the member was invoked exactly once, with the arguments of the call, and
\* the call has changed neither the active implementation nor which logs are
\* open.
C15_FailurePropagated ==
    [][(/\ last'.op \in DataOps
        /\ Exposes(impl, last'.op)
        /\ Invoke(impl, last'.op, last'.args).t = "error") =>
           /\ last'.outcome = "throw"
           /\ last'.value = Invoke(impl, last'.op, last'.args)
           /\ last'.calls = <<Invocation(impl, last')>>
           /\ impl' = impl
           /\ baseImpl' = baseImpl
           /\ [k \in DOMAIN logs' |-> logs'[k].name] =
                  [k \in DOMAIN logs |-> logs[k].name]]_vars

\* json("f") has thrown the error that the json of the swapped-in
\* implementation threw, with a log open that has recorded the call.
C15_Witness ==
    /\ last.op = "json"
    /\ last.outcome = "throw"
    /\ last.value.class = "BackendError"
    /\ last.calls = <<[target |-> impl, method |-> "json", args |-> last.args]>>
    /\ impl # baseImpl
    /\ Len(logs) = 1
    /\ logs[1].entries = <<LogEntry("json", last.args)>>

----------------------------------------------------------------------------
(* C16 *)


\* C16: with calls of the data methods in flight, every open log holds, under
\* their recorded names and in the order they were made, the calls made since
\* it was opened: a call of a data method adds its record at the end of every
\* open log at the moment it is made, after the records of the calls made
\* before it, settled or not; and a call that settles, in whatever order,
\* changes no log.
C16_InvocationOrder ==
    [][/\ \A k \in DOMAIN logs' :
              logs'[k].entries = RecordsOf(hist'.since[k].entries, RecordedName)
       /\ last'.op \in DataOps =>
              /\ Len(logs') = Len(logs)
              /\ \A k \in DOMAIN logs :
                     logs'[k].entries =
                         Append(logs[k].entries, LogEntry(last'.op, last'.args))
       /\ last'.op = "settled" => logs' = logs]_vars

\* text("f") and then json("f") were started with two logs open; json has
\* settled while a text is still in flight, and both logs list text before
\* json.
C16_Witness ==
    /\ last.op = "settled"
    /\ last.args[1] = Str("json")
    /\ inflight = <<[op |-> "text", target |-> impl]>>
    /\ Len(logs) = 2
    /\ \A k \in DOMAIN logs :
           logs[k].entries = <<LogEntry("text", <<Str("f")>>),
                               LogEntry("json", <<Str("f")>>)>>

----------------------------------------------------------------------------
(* C17 *)

\* C17: a call of a data method that invokes anything invokes one member, of
\* the implementation that is active when the call is made, which is the
\* argument of the latest setImpl call that returned if there has been one
\* since the last resetImpl (or since construction), and the base
\* implementation otherwise: so with no such setImpl since the last resetImpl
\* the call reaches the base implementation and no implementation swapped in
\* before, and while an implementation other than the base one is swapped in
\* the call does not reach the base implementation.
C17_DispatchToActive ==
    (last.op \in DataOps /\ last.calls # <<>>) =>
        LET target == last.calls[1].target
        IN  /\ Len(last.calls) = 1
            /\ target = impl
            /\ hist.swaps # <<>> => target = hist.swaps[2]
            /\ hist.swaps = <<>> => target = baseImpl
            /\ (hist.swaps # <<>> /\ hist.swaps[2] # baseImpl) =>
                   target # baseImpl

\* With "partial" swapped in over the base implementation "node", text("f")
\* has invoked the text of "partial"; the log shows the swap, then the call.
C17_Witness ==
    /\ last.op = "text"
    /\ last.calls = <<[target |-> Obj("partial"), method |-> "text",
                       args |-> <<Str("f")>>]>>
    /\ baseImpl = Obj("node")
    /\ hist.swaps # <<>>
    /\ Len(logs) = 1
    /\ logs[1].entries = <<LogEntry("implSet", <<Obj("partial")>>),
                           LogEntry("text", <<Str("f")>>)>>

----------------------------------------------------------------------------
(* C18 *)

\* C18: a setImpl(impl) call made while the base implementation is active
\* returns and makes impl the active implementation, whichever members impl
\* has; of an object swapped in like that, a call of a data method whose
\* member the object lacks, or has as something that is not a function,
\* throws NoSuchMethodError for it and invokes nothing, and a call of a data
\* method whose member it has invokes that member once and completes with
\* what the member produced.
C18_NoValidationAtSwap ==
    [][/\ (last'.op = "setImpl" /\ impl = baseImpl) =>
              /\ last'.outcome = "return"
              /\ impl' = last'.args[1]
       /\ (/\ last'.op \in DataOps
           /\ hist.swaps # <<>>
           /\ impl = hist.swaps[2]
           /\ impl.t = "object") =>
              IF Exposes(impl, last'.op)
              THEN /\ last'.calls = <<Invocation(impl, last')>>
                   /\ last'.value = Invoke(impl, last'.op, last'.args)
                   /\ last'.outcome =
                          IF last'.value.t = "error" THEN "throw" ELSE "return"
              ELSE /\ last'.calls = <<>>
                   /\ last'.outcome = "throw"
                   /\ last'.value = NoSuchMethodError(last'.op)]_vars

\* An object with no operation at all was swapped in over "node" without
\* complaint, and the write("f", "x") that followed has thrown
\* NoSuchMethodError.
C18_Witness ==
    /\ last.op = "write"
    /\ last.value = NoSuchMethodError("write")
    /\ impl = Obj("empty")
    /\ baseImpl = Obj("node")
    /\ Len(logs) = 1
    /\ logs[1].entries = <<LogEntry("implSet", <<Obj("empty")>>),
                           LogEntry("write", <<Str("f"), Str("x")>>)>>

----------------------------------------------------------------------------
(* C19 *)

\* C19: in every state the active implementation is the base implementation
\* when no setImpl call has returned since the last resetImpl (or since
\* construction), and otherwise the argument of the latest setImpl call that
\* has returned since then; a setImpl call that throws leaves it as it was,
\* so the argument of such a call never becomes active by it.
C19_ActiveImpl ==
    /\ impl = IF hist.swaps = <<>> THEN baseImpl ELSE hist.swaps[2]
    /\ (/\ last.op = "setImpl"
        /\ last.outcome = "throw"
        /\ last.args[1] \notin {baseImpl} \cup {hist.swaps[k] : k \in DOMAIN hist.swaps}) =>
           impl # last.args[1]

\* setImpl("node") has thrown while "partial" is swapped in over the base
\* implementation "empty": "partial" is still active.
C19_Witness ==
    /\ last.op = "setImpl"
    /\ last.outcome = "throw"
    /\ last.args = <<Obj("node")>>
    /\ baseImpl = Obj("empty")
    /\ hist.swaps = <<Obj("partial"), Obj("partial")>>
    /\ impl = Obj("partial")

----------------------------------------------------------------------------
(* C20 *)

\* C20: the base implementation is the argument of the constructor, and no
\* call changes it: not a call of a data method, of setImpl, of resetImpl, of
\* logStart or of logEnd, nor any other; so what resetImpl makes the active
\* implementation is always the argument of the constructor.
C20_BaseImplFixed ==
    /\ last.op = "constructor" /\ last.args = <<baseImpl>>
    /\ [][/\ baseImpl' = baseImpl
          /\ last'.op = "resetImpl" => impl' = baseImpl']_vars

\* After "partial" was swapped in and resetImpl was called, isBaseImpl()
\* says true and the base implementation is the "node" the facade had from
\* the start.
C20_Witness ==
    /\ last.op = "isBaseImpl"
    /\ last.value = [t |-> "boolean", v |-> TRUE]
    /\ baseImpl = Obj("node")
    /\ impl = Obj("node")
    /\ Len(logs) = 1
    /\ logs[1].entries = <<LogEntry("implSet", <<Obj("partial")>>),
                           LogEntry("implReset", <<>>)>>

----------------------------------------------------------------------------
(* C21 *)

\* File contents that write() is documented to take. Of the values of Data
\* these are the strings; none of them is an ArrayBuffer or a view of one.
TextOrBinary(data) == data.t = "string"

\* C21: a call write(filePath, data) whose data is neither text nor binary
\* data throws in the facade, and invokes no member of the active
\* implementation.
C21_AsStated ==
    (last.op = "write" /\ ~TextOrBinary(last.args[2])) =>
        /\ last.outcome = "throw"
        /\ last.calls = <<>>

----------------------------------------------------------------------------
(* C22 *)

\* C22: a call of a data method that invokes a member is in flight against
\* the implementation that is active when the call is made; a setImpl or
\* resetImpl call, returning or throwing, leaves the calls in flight as they
\* are, each against the implementation it was started on; and when a call
\* settles it is one of the calls in flight that settles, on the
\* implementation it was started on, with nothing invoked again and the other
\* calls in flight as they were.
C22_InFlightKeepsImpl ==
    [][/\ (last'.op \in DataOps /\ last'.calls # <<>>) =>
              inflight' = Append(inflight, [op |-> last'.op, target |-> impl])
       /\ last'.op \in {"setImpl", "resetImpl"} => inflight' = inflight
       /\ last'.op = "settled" =>
              /\ last'.calls = <<>>
              /\ impl' = impl
              /\ \E k \in DOMAIN inflight :
                     /\ last'.args = <<Str(inflight[k].op), inflight[k].target>>
                     /\ inflight' = SubSeq(inflight, 1, k - 1) \o
                                    SubSeq(inflight, k + 1, Len(inflight))]_vars

\* text("f") was started on the base implementation "node", then "partial"
\* was swapped in, as the log shows; the text call has settled, on "node",
\* while "partial" is active.
C22_Witness ==
    /\ last.op = "settled"
    /\ last.args = <<Str("text"), Obj("node")>>
    /\ impl = Obj("partial")
    /\ inflight = <<>>
    /\ Len(logs) = 1
    /\ logs[1].entries = <<LogEntry("text", <<Str("f")>>),
                           LogEntry("implSet", <<Obj("partial")>>)>>

----------------------------------------------------------------------------
(* C23 *)

\* entries s ends with the entries t.
IsSuffix(t, s) ==
    /\ Len(t) <= Len(s)
    /\ SubSeq(s, Len(s) - Len(t) + 1, Len(s)) = t

\* C23: in every state, of any two open logs the one started later (the map
\* keeps the logs in the order they were started) holds, as method names and
\* arguments, the last entries of the one started earlier.
C23_LaterLogIsSuffix ==
    \A j, k \in DOMAIN logs :
        j < k => IsSuffix(logs[k].entries, logs[j].entries)

\* Two logs are open: the earlier has two entries, and the later, started
\* between the two calls, has the second of them.
C23_Witness ==
    /\ Len(logs) = 2
    /\ Len(logs[1].entries) = 2
    /\ Len(logs[2].entries) = 1
    /\ logs[2].entries[1] = logs[1].entries[2]
    /\ logs[1].entries[1] # logs[1].entries[2]

----------------------------------------------------------------------------
(* C24 *)

\* C24: a call of logStart, logEnd or isBaseImpl, returning or throwing, adds
\* no entry to any log: every log that is open before and after the call has
\* the entries it had, and a log the call has opened is empty; so every entry
\* of every open log is the record of a call of a data method, of setImpl or
\* of resetImpl.
C24_NeverRecorded ==
    [][/\ last'.op \in {"logStart", "logEnd", "isBaseImpl"} =>
              \A k \in DOMAIN logs' :
                  IF Has(logs, logs'[k].name)
                  THEN logs'[k].entries = Get(logs, logs'[k].name)
                  ELSE logs'[k].entries = <<>>
       /\ \A k \in DOMAIN logs' :
              \A n \in DOMAIN logs'[k].entries :
                  logs'[k].entries[n].methodName \in
                      {RecordedName[op] : op \in RecordedOps}]_vars

\* With two logs open, the second still empty, and one entry in the first,
\* logEnd of a name that no log has has thrown.
C24_Witness ==
    /\ last.op = "logEnd"
    /\ last.outcome = "throw"
    /\ Len(logs) = 2
    /\ Len(logs[1].entries) = 1
    /\ logs[2].entries = <<>>

----------------------------------------------------------------------------
(* C25 *)

\* C25: a call of a data method, of logStart, of logEnd or of isBaseImpl,
\* returning or throwing, leaves the active implementation as it was; a call
\* of a data method, of setImpl, of resetImpl or of isBaseImpl, returning or
\* throwing, leaves the same logs open, under the same names in the same
\* order.
C25_Frame ==
    [][/\ last'.op \in DataOps \cup {"logStart", "logEnd", "isBaseImpl"} =>
              impl' = impl
       /\ last'.op \in DataOps \cup {"setImpl", "resetImpl", "isBaseImpl"} =>
              [k \in DOMAIN logs' |-> logs'[k].name] =
                  [k \in DOMAIN logs |-> logs[k].name]]_vars

\* arrayBuffer("f") has thrown on the swapped-in "partial", whose arrayBuffer
\* is not a function, with two logs open: "partial" is still active and the
\* two logs are still open.
C25_Witness ==
    /\ last.op = "arrayBuffer"
    /\ last.outcome = "throw"
    /\ impl = Obj("partial")
    /\ baseImpl # impl
    /\ Len(logs) = 2
    /\ Len(logs[1].entries) = 2

====
